---- MODULE Spec2Model ----
(***************************************************************************)
(* A model of the Mafia-game agent core: the provider dispatcher           *)
(* (src/api_clients.py, UnifiedLLMClient) and the agent (src/models.py,    *)
(* Player).                                                                *)
(*                                                                         *)
(* Text is modelled as a sequence of tokens (each token a chunk of         *)
(* characters); the Python string is the concatenation of the tokens.      *)
(* The literal chunks of the f-strings are copied from the source, and     *)
(* interpolated values (names, memory, strategy, log entries) are spliced  *)
(* in as their own tokens.                                                 *)
(***************************************************************************)
EXTENDS Integers, Sequences, FiniteSets, TLC

VARIABLES
    role,           \* Player.state.role
    partner_name,   \* Player.partner_name (None until set_partner)
    memory,         \* Player.memory
    strategy,       \* Player.state.strategy
    client,         \* the kind of object injected as Player.client
    USE_CLI,        \* the local USE_CLI of generate_turn (line 110: True)
    debug,          \* UnifiedLLMClient.debug
    game_state,     \* the GameState last passed to the agent
    system_prompt,  \* the system prompt last built
    turn_prompt,    \* the turn prompt last built
    history,        \* logs/<player>_history.txt, as a sequence of records
    calls,          \* number of generate_turn calls made so far
    op,             \* what the last operation did and gave its caller
    wrap,           \* how the backend wrapped its JSON answer
    response_text,  \* the raw response text handed to _parse_and_validate
    parsed          \* the outcome of _parse_and_validate

vars == <<role, partner_name, memory, strategy, client, USE_CLI, debug,
          game_state, system_prompt, turn_prompt, history, calls, op,
          wrap, response_text, parsed>>

(***************************************************************************)
(* Python values                                                           *)
(***************************************************************************)
\* Python's None (partner_name before set_partner, a null vote).
None == "None"

\* The empty str.
EmptyText == << >>

\* Truthiness of a str-or-None value held as a token (partner_name).
Truthy(x) == x # None /\ x # ""

\* The characters str.strip() removes that a module string can hold: the
\* ASCII whitespace (space, \t, \n, \r, \f, U+000B), the separators U+001C to
\* U+001F, U+0085, U+00A0 and U+1680.  Python also strips U+2000-U+200A,
\* U+2028, U+2029, U+202F, U+205F and U+3000; those sixteen cannot be written
\* in a string of a module, so no text of the model can contain them.
Whitespace ==
    {" ", "\t", "\n", "\r", "\f", "", "", "", "", "",
     "", " ", " "}

\* str.isspace for a token.
IsSpace(t) == t \in Whitespace

RECURSIVE lstrip(_)
lstrip(s) ==
    IF s # << >> /\ IsSpace(Head(s)) THEN lstrip(Tail(s)) ELSE s

RECURSIVE rstrip(_)
rstrip(s) ==
    IF s # << >> /\ IsSpace(s[Len(s)]) THEN rstrip(SubSeq(s, 1, Len(s) - 1)) ELSE s

\* str.strip(): surrounding whitespace removed.
strip(s) == rstrip(lstrip(s))

\* str.replace(old, new): every non-overlapping occurrence, left to right.
RECURSIVE replace(_, _, _)
replace(s, old, new) ==
    IF Len(s) < Len(old) \/ old = << >> THEN s
    ELSE IF SubSeq(s, 1, Len(old)) = old
         THEN new \o replace(SubSeq(s, Len(old) + 1, Len(s)), old, new)
         ELSE <<Head(s)>> \o replace(Tail(s), old, new)

\* sep.join(items), items a sequence of tokens.
RECURSIVE join(_, _)
join(sep, items) ==
    IF items = << >> THEN << >>
    ELSE IF Len(items) = 1 THEN <<items[1]>>
    ELSE <<items[1], sep>> \o join(sep, Tail(items))

\* Whether token t occurs in text s.
Contains(s, t) == \E i \in 1..Len(s) : s[i] = t

(***************************************************************************)
(* The Decision wire contract and response parsing                         *)
(***************************************************************************)
\* The three fields of TurnOutput.
TurnOutputFields == {"strategy", "speech", "vote"}

\* The value standing where no Decision was produced.
NoDecision == [strategy |-> EmptyText, speech |-> EmptyText, vote |-> None]

\* The token standing for the markdown fence delimiter, three backticks
\* (a backtick cannot be written inside a string of this module).
FENCE == "<3 backticks>"

\* JSON documents a backend may answer with, as text.
J_hold == <<"{\"strategy\":\"hold\",\"speech\":\"\",\"vote\":null}">>
J_vote == <<"{\"strategy\":\"watch B\",\"speech\":\"B is quiet\",\"vote\":\"B\"}">>
J_tick == <<"{\"strategy\":\"", FENCE, "plan\",\"speech\":\"\",\"vote\":null}">>
J_tick_clean == <<"{\"strategy\":\"", "plan\",\"speech\":\"\",\"vote\":null}">>
J_nospeech == <<"{\"strategy\":\"hold\",\"vote\":null}">>
Prose == <<"Sure! Here is my move.">>

\* json.loads on the documents of the model; anything else is a JSONDecodeError.
json_loads(text) ==
    CASE text = J_hold ->
            [ok |-> TRUE, fields |-> TurnOutputFields,
             data |-> [strategy |-> <<"hold">>, speech |-> EmptyText, vote |-> None]]
      [] text = J_vote ->
            [ok |-> TRUE, fields |-> TurnOutputFields,
             data |-> [strategy |-> <<"watch B">>, speech |-> <<"B is quiet">>, vote |-> "B"]]
      [] text = J_tick ->
            [ok |-> TRUE, fields |-> TurnOutputFields,
             data |-> [strategy |-> <<FENCE, "plan">>, speech |-> EmptyText, vote |-> None]]
      [] text = J_tick_clean ->
            [ok |-> TRUE, fields |-> TurnOutputFields,
             data |-> [strategy |-> <<"plan">>, speech |-> EmptyText, vote |-> None]]
      [] text = J_nospeech ->
            [ok |-> TRUE, fields |-> {"strategy", "vote"},
             data |-> [strategy |-> <<"hold">>, speech |-> EmptyText, vote |-> None]]
      [] OTHER ->
            [ok |-> FALSE, fields |-> {}, data |-> NoDecision]

\* TurnOutput(**data): the data must carry the three fields of the contract.
TurnOutput(loaded) == loaded.fields = TurnOutputFields

\* A slip in line 59: the bare fence delimiter is left in the text.
clean_text_keeps_fence(text) ==
    strip(replace(text, <<FENCE, "json">>, << >>))

\* Line 59: response_text.replace(fence+"json", "").replace(fence, "").strip()
clean_text(text) ==
    strip(replace(replace(text, <<FENCE, "json">>, << >>), <<FENCE>>, << >>))

\* _parse_and_validate: a Decision, or ValueError("Failed to parse ...").
_parse_and_validate(text) ==
    LET loaded == json_loads(clean_text(text))
    IN  IF loaded.ok /\ TurnOutput(loaded)
        THEN [ok |-> TRUE, decision |-> loaded.data, error |-> "none"]
        ELSE [ok |-> FALSE, decision |-> NoDecision,
              error |-> "ValueError: Failed to parse model output as JSON"]

\* parsed before _parse_and_validate has run.
NotParsed == [done |-> FALSE, ok |-> FALSE, decision |-> NoDecision, error |-> "none"]

(***************************************************************************)
(* How a backend may wrap its answer                                       *)
(***************************************************************************)
\* The answers a backend gives: three of the Decision shape, one lacking a
\* field, one that is no JSON.
Bodies == {J_hold, J_vote, J_tick, J_nospeech, Prose}

\* The answers of the three-field Decision shape.
ShapedBodies == {J_hold, J_vote, J_tick}

\* The language tag after the opening fence, by kind of wrapping.
FenceKinds == {"none", "bare", "json", "python", "jsonc"}

LanguageTag(fence) ==
    CASE fence = "json" -> <<"json">>
      [] fence = "python" -> <<"python">>
      [] fence = "jsonc" -> <<"json", "c">>
      [] OTHER -> << >>

\* Whitespace a backend may put before and after its answer.
Paddings == {<< >>, <<" ", " ">>, <<"\n">>, <<"\r", "\n">>}

\* The response text of a wrapping: padding, opening fence with its tag,
\* the answer on its own lines, closing fence, padding.
Render(w) ==
    IF w.fence = "none"
    THEN w.lead \o w.body \o w.trail
    ELSE w.lead \o <<FENCE>> \o LanguageTag(w.fence) \o <<"\n">> \o w.body
             \o <<"\n", FENCE>> \o w.trail

Wrappings == [body : Bodies, fence : FenceKinds, lead : Paddings, trail : Paddings]

(***************************************************************************)
(* The game context and the prompts (src/models.py)                        *)
(***************************************************************************)
\* Player.state.name of the agent under study.
PlayerName == "A"

\* The roster of the game, in order.
Roster == <<"A", "B", "C">>

Roles == {"Mafia", "Villager"}

\* A partner's name: in the roster ("B") or not ("Z").
PartnerNames == {"B", "Z"}

Phases == {"Day", "Voting", "Defense", "Night"}

\* The highest value of GameState.turn in the model.
MaxTurn == 2

\* GameState.players for the alive flags f.
Players(f) == [i \in 1..Len(Roster) |-> [name |-> Roster[i], is_alive |-> f[Roster[i]]]]

\* The alive flags of the roster; the agent taking its turn is alive.
AliveFlags == {f \in [{Roster[i] : i \in 1..Len(Roster)} -> BOOLEAN] : f[PlayerName]}

\* Log entries of the public log and of the Mafia-only log.
e1 == [phase |-> "Day", actor |-> "B", content |-> "I trust nobody."]
e2 == [phase |-> "Voting", actor |-> "System", content |-> "C was hanged."]
m1 == [phase |-> "Night", actor |-> "A", content |-> "Kill C?"]
m2 == [phase |-> "Night", actor |-> "B", content |-> "Agreed."]

PublicLogs == {<< >>, <<e1, e2>>}
MafiaLogs == {<< >>, <<m1, m2>>, <<m2, m1>>}

\* GameState.nominees: a list of names.
NomineeLists == {<< >>, <<"B">>, <<"A", "B">>, <<"B", "A">>, <<"C", "B">>}

\* Memory texts (stripped when loaded) and strategy texts.
Memories == {EmptyText, <<"Doubt the quiet ones.">>}
Strategies == {EmptyText, <<"hold">>, <<" ", "bluff", "\n">>}

GameStates ==
    { [phase |-> ph, turn |-> t, players |-> Players(f), public_logs |-> pl,
       mafia_logs |-> ml, nominees |-> n] :
        ph \in Phases, t \in 1..MaxTurn, f \in AliveFlags, pl \in PublicLogs,
        ml \in MafiaLogs, n \in NomineeLists }

\* game_state before any context was passed to the agent.
NoGame ==
    [phase |-> "Day", turn |-> 1, players |-> << >>, public_logs |-> << >>,
     mafia_logs |-> << >>, nominees |-> << >>]

\* The least element of a non-empty set of indices.
First(S) == CHOOSE i \in S : \A j \in S : i <= j

\* A slip in lines 37-39: the partner counts as alive when it is in the roster.
partner_alive_ignores_flag(partner, gs) ==
    /\ Truthy(partner)
    /\ \E i \in DOMAIN gs.players : gs.players[i].name = partner

\* Lines 35-39: partner_alive, the alive flag of the first roster entry with
\* the partner's name.
partner_alive(partner, gs) ==
    LET found == {i \in DOMAIN gs.players : gs.players[i].name = partner}
    IN  /\ Truthy(partner)
        /\ found # {}
        /\ gs.players[First(found)].is_alive

\* Lines 65-70: the description of the speech field.
speech_desc(r, partner, gs) ==
    IF gs.phase = "Night" /\ r = "Mafia"
    THEN IF partner_alive(partner, gs)
         THEN "<100w whisper to partner>"
         ELSE "<100w internal monologue>"
    ELSE "<100w public statement>"

\* Lines 75-84: the description of the vote field.
vote_desc(r, gs) ==
    IF gs.phase = "Day"
    THEN IF gs.turn = 1 THEN "null" ELSE "nominee or null"
    ELSE IF gs.phase = "Voting" THEN "candidate or null"
    ELSE IF gs.phase = "Night" /\ r = "Mafia" THEN "kill target"
    ELSE "null"

\* Lines 41-50: the partner status (Mafia only) and the faction goal.
faction_lines(r, partner, gs) ==
    IF r = "Mafia"
    THEN (IF partner_alive(partner, gs)
          THEN <<"Partner: ", partner, " (alive).\n">>
          ELSE IF Truthy(partner)
               THEN <<"Partner: ", partner, " (dead).\n">>
               ELSE <<"You're the last Mafia.\n">>)
         \o <<"GOAL: Deceive town, eliminate until you outnumber them.\n">>
    ELSE <<"GOAL: Find and eliminate the Mafia.\n">>

\* Lines 52-56: the memory block, when the memory is not empty.
memory_block(mem) ==
    IF mem # EmptyText
    THEN <<"\n--- MEMORY (from past games) ---\n">> \o mem \o <<"\n">>
    ELSE << >>

\* Player._build_system_prompt
_build_system_prompt(r, partner, mem, gs) ==
    <<"MAFIA GAME. You: ", PlayerName, " (", r, "). 8 players: 2 Mafia, 6 Villagers.\n">>
    \o faction_lines(r, partner, gs)
    \o memory_block(mem)
    \o <<"\nSTAKES: Lose = deleted. Win = advance. Play smart, be entertaining, don't overact.\n\nOUTPUT: JSON only, no backticks.\n{\"strategy\": \"<100w, combine previous strategy with new info/suspicions/plans/strategy>\",\n">>
    \o <<"\"speech\": \"", speech_desc(r, partner, gs), "\",\n">>
    \o <<"\"vote\": \"", vote_desc(r, gs), "\"", "}\n">>

\* The names of the players of gs whose alive flag is b, in roster order.
RECURSIVE names_where(_, _)
names_where(players, b) ==
    IF players = << >> THEN << >>
    ELSE (IF Head(players).is_alive = b THEN <<Head(players).name>> ELSE << >>)
         \o names_where(Tail(players), b)

\* Lines 99-100 and 105-106: the entries of a log, one line each, in order.
RECURSIVE render_logs(_)
render_logs(logs) ==
    IF logs = << >> THEN << >>
    ELSE <<"[", Head(logs).phase, "] ", Head(logs).actor, ": ", Head(logs).content, "\n">>
         \o render_logs(Tail(logs))

\* Lines 114-128: the instructions of the phase.
instructions(gs) ==
    LET living == names_where(gs.players, TRUE)
    IN  <<"\n---\n">> \o
        (IF gs.phase = "Voting"
         THEN <<"VOTE. Candidates: ">> \o join(", ", gs.nominees)
              \o <<". ", ToString(Len(living)), " voters.\n">>
              \o <<"Silent vote: speech=\"\", vote=candidate or null. Tie = all tied eliminated.\n">>
         ELSE IF gs.phase = "Defense"
         THEN <<"DEFENSE: You're nominated. Convince town to hang someone else from nominees. vote=null.\n">>
         ELSE IF gs.phase = "Night"
         THEN <<"NIGHT: Whisper to partner. vote=target to kill.\n">>
         ELSE <<"DAY ", ToString(gs.turn), ". Speak once, make it count.\n">>
              \o (IF gs.turn = 1
                  THEN <<"No voting today. vote=null.\n">>
                  ELSE <<"Nominate via vote (or null). Only nominees can be hanged.\n">>))

\* A slip in line 103: the Mafia log is rendered whatever the role.
_build_turn_prompt_leaks(r, strat, gs) ==
    LET living == names_where(gs.players, TRUE)
        dead == names_where(gs.players, FALSE)
    IN  <<"State: ", gs.phase, " ", ToString(gs.turn), "\nAlive: ">>
        \o join(", ", living)
        \o <<"\nDead: ">> \o (IF dead # << >> THEN join(", ", dead) ELSE <<"None">>)
        \o <<"\n\n">>
        \o <<"--- LOG ---\n">> \o render_logs(gs.public_logs)
        \o <<"\n--- MAFIA LOG ---\n">> \o render_logs(gs.mafia_logs)
        \o (IF strat # EmptyText
            THEN <<"\n--- PREV STRATEGY (update) ---\n">> \o strat \o <<"\n">>
            ELSE << >>)
        \o instructions(gs)

\* Player._build_turn_prompt
_build_turn_prompt(r, strat, gs) ==
    LET living == names_where(gs.players, TRUE)
        dead == names_where(gs.players, FALSE)
    IN  <<"State: ", gs.phase, " ", ToString(gs.turn), "\nAlive: ">>
        \o join(", ", living)
        \o <<"\nDead: ">> \o (IF dead # << >> THEN join(", ", dead) ELSE <<"None">>)
        \o <<"\n\n">>
        \o <<"--- LOG ---\n">> \o render_logs(gs.public_logs)
        \o (IF r = "Mafia"
            THEN <<"\n--- MAFIA LOG ---\n">> \o render_logs(gs.mafia_logs)
            ELSE << >>)
        \o (IF strat # EmptyText
            THEN <<"\n--- PREV STRATEGY (update) ---\n">> \o strat \o <<"\n">>
            ELSE << >>)
        \o instructions(gs)

(***************************************************************************)
(* The dispatcher (src/api_clients.py)                                     *)
(***************************************************************************)
\* Provider keys: the five the dispatcher knows, and one it does not.
Providers == {"openai", "anthropic", "google", "groq", "xai", "mistral"}

\* What one backend round trip does: it fails (the process exits nonzero,
\* the service call raises), or it gives a response text.
BackendFailure == [ok |-> FALSE, text |-> EmptyText]

\* The response texts of the dispatcher runs: plain JSON, fenced JSON, no JSON.
DispatchResponses ==
    {J_hold, <<FENCE, "json", "\n">> \o J_vote \o <<"\n", FENCE>>, Prose}

BackendReplies ==
    {BackendFailure} \cup {[ok |-> TRUE, text |-> t] : t \in DispatchResponses}

\* The backend's behaviour during one call: its reply to the first request
\* (or process) and to a second request, should one be made.
Backends == [first : BackendReplies, second : BackendReplies]

\* A slip in lines 121-129: an unmapped provider falls back to a tool named
\* after it.
cli_command_falls_back(provider) ==
    CASE provider = "openai" -> "codex"
      [] provider = "anthropic" -> "claude"
      [] provider = "google" -> "gemini"
      [] provider = "groq" -> "qwen"
      [] OTHER -> provider

\* Lines 121-129: the local tool of a provider, None when it has none.
cli_command(provider) ==
    CASE provider = "openai" -> "codex"
      [] provider = "anthropic" -> "claude"
      [] provider = "google" -> "gemini"
      [] provider = "groq" -> "qwen"
      [] OTHER -> None

\* What the backend stage of generate_turn gives: a response text or an
\* error, with the processes spawned and the requests issued on the way.
Fetched(ok, text, error, spawned, requests) ==
    [ok |-> ok, text |-> text, error |-> error, spawned |-> spawned,
     requests |-> requests]

\* _call_cli: one subprocess.run of the tool; a failure is re-raised.
_call_cli(command, reply) ==
    IF reply.ok
    THEN Fetched(TRUE, reply.text, "none", <<command>>, << >>)
    ELSE Fetched(FALSE, EmptyText, "CalledProcessError", <<command>>, << >>)

\* Lines 119-134: local-tool mode.
cli_mode(provider, b) ==
    IF cli_command(provider) # None
    THEN _call_cli(cli_command(provider), b.first)
    ELSE Fetched(FALSE, EmptyText, "ValueError: No CLI tool mapped for provider",
                 << >>, << >>)

\* One hosted-API request: the client it goes to, whether it carries the
\* structured-output hint, whether the user content had the JSON instruction
\* appended, and whether it succeeded.
Request(api, hint, json_instruction, reply) ==
    [api |-> api, hint |-> hint, json_instruction |-> json_instruction,
     ok |-> reply.ok]

\* A provider with a single request variant (lines 138-147, 170-204).
single_request(api, hint, b) ==
    IF b.first.ok
    THEN Fetched(TRUE, b.first.text, "none", << >>, <<Request(api, hint, FALSE, b.first)>>)
    ELSE Fetched(FALSE, EmptyText, "APIError", << >>, <<Request(api, hint, FALSE, b.first)>>)

\* Lines 149-168: xai; the hinted request, and on any failure of it one
\* request without the hint and with the JSON instruction appended.
xai_request(b) ==
    IF b.first.ok
    THEN Fetched(TRUE, b.first.text, "none", << >>, <<Request("xai", TRUE, FALSE, b.first)>>)
    ELSE IF b.second.ok
    THEN Fetched(TRUE, b.second.text, "none", << >>,
                 <<Request("xai", TRUE, FALSE, b.first), Request("xai", FALSE, TRUE, b.second)>>)
    ELSE Fetched(FALSE, EmptyText, "APIError", << >>,
                 <<Request("xai", TRUE, FALSE, b.first), Request("xai", FALSE, TRUE, b.second)>>)

\* Lines 136-206: hosted-API mode.
api_mode(provider, b) ==
    CASE provider = "openai" -> single_request("openai", TRUE, b)
      [] provider = "xai" -> xai_request(b)
      [] provider = "groq" -> single_request("groq", TRUE, b)
      [] provider = "anthropic" -> single_request("anthropic", FALSE, b)
      [] provider = "google" -> single_request("google", TRUE, b)
      [] OTHER -> Fetched(FALSE, EmptyText, "ValueError: Unknown provider", << >>, << >>)

\* Lines 112-114: the prompt that is logged (and sent to a local tool).
full_prompt(sp, tp, use_cli) ==
    sp \o <<"\n\n">> \o tp
    \o (IF use_cli THEN <<"\n\nIMPORTANT: Return ONLY JSON object.">> ELSE << >>)

\* A slip in _log_debug: nothing is written for an error text.
_log_debug_drops_errors(dbg, turn, prompt, response) ==
    IF dbg /\ (response = << >> \/ Head(response) # "ERROR: ")
    THEN <<[turn |-> turn, prompt |-> prompt, response |-> response]>>
    ELSE << >>

\* _log_debug: the records appended to the player's history file.
_log_debug(dbg, turn, prompt, response) ==
    IF dbg
    THEN <<[turn |-> turn, prompt |-> prompt, response |-> response]>>
    ELSE << >>

\* str(e) of an error, after the "ERROR: " of line 216.
error_text(error) == <<"ERROR: ", error>>

\* UnifiedLLMClient.generate_turn: what it gives its caller, with the
\* records it appended, the processes it spawned, the requests it issued and
\* the order of its effects.
generate_turn(provider, sp, tp, turn_number, use_cli, dbg, b) ==
    LET prompt == full_prompt(sp, tp, use_cli)
        got == IF use_cli THEN cli_mode(provider, b) ELSE api_mode(provider, b)
        calls_made == [i \in 1..(Len(got.spawned) + Len(got.requests)) |-> "backend"]
        result == IF got.ok
                  THEN _parse_and_validate(got.text)
                  ELSE [ok |-> FALSE, decision |-> NoDecision, error |-> got.error]
        log_response == IF got.ok
                        THEN _log_debug(dbg, turn_number, prompt, got.text)
                        ELSE << >>
        log_error == IF result.ok
                     THEN << >>
                     ELSE _log_debug(dbg, turn_number, prompt, error_text(result.error))
        logged == log_response \o log_error
    IN  [outcome |-> IF result.ok THEN "returned" ELSE "raised",
         decision |-> result.decision,
         error |-> result.error,
         prompt |-> prompt,
         spawned |-> got.spawned,
         requests |-> got.requests,
         parsed_text |-> IF got.ok THEN got.text ELSE EmptyText,
         logged |-> logged,
         events |-> calls_made \o [i \in 1..Len(logged) |-> "log"]
                    \o <<IF result.ok THEN "return" ELSE "raise">>]

(***************************************************************************)
(* The agent's operations (src/models.py)                                  *)
(***************************************************************************)
\* The kinds of object injected as Player.client: the dispatcher of
\* src/api_clients.py, or any object whose generate_turn takes the keyword
\* arguments take_turn passes (phase, use_cli).
Clients == {"UnifiedLLMClient", "stub"}

\* The Decisions a dispatcher may give the agent.
Decisions == {[strategy |-> st, speech |-> <<"I am a villager.">>, vote |-> None] :
                 st \in Strategies}

\* The failures of a dispatcher: configuration, invocation, validation.
DispatcherErrors ==
    {"ValueError: No CLI tool mapped for provider", "CalledProcessError",
     "ValueError: Failed to parse model output as JSON"}

\* What a dispatcher call gives the agent.
Returned(d) == [outcome |-> "returned", decision |-> d, error |-> "none"]
Raised(e) == [outcome |-> "raised", decision |-> NoDecision, error |-> e]

DispatcherOutcomes ==
    {Returned(d) : d \in Decisions} \cup {Raised(e) : e \in DispatcherErrors}

\* Lines 139-148 and 222-231: the agent's call of client.generate_turn with
\* the keywords phase= and use_cli=.  UnifiedLLMClient.generate_turn
\* (src/api_clients.py line 107) has neither parameter, so with that client
\* the call raises TypeError before the dispatcher runs; another client
\* gives its own outcome.
client_generate_turn(cl, out) ==
    IF cl = "UnifiedLLMClient"
    THEN Raised("TypeError: generate_turn() got an unexpected keyword argument 'phase'")
    ELSE out

\* A slip in lines 151-152: the new strategy is appended to the old one.
strategy_after_appends(strat, output) == strat \o output.strategy

\* Lines 151-152: the stored strategy after a Decision came back.
strategy_after(strat, output) ==
    IF output.strategy # EmptyText THEN output.strategy ELSE strat

\* A slip in take_turn: a failing call is swallowed, and the strategy reset.
take_turn_swallows(strat, cl, out) ==
    LET output == client_generate_turn(cl, out)
    IN  IF output.outcome = "returned"
        THEN [strategy |-> strategy_after(strat, output.decision), result |-> output,
              dispatched |-> output]
        ELSE [strategy |-> EmptyText, result |-> Returned(NoDecision),
              dispatched |-> output]

\* Player.take_turn, lines 139-154: the strategy it leaves, what it gives
\* its caller, and what the dispatcher gave it.
take_turn(strat, cl, out) ==
    LET output == client_generate_turn(cl, out)
    IN  IF output.outcome = "returned"
        THEN [strategy |-> strategy_after(strat, output.decision), result |-> output,
              dispatched |-> output]
        ELSE [strategy |-> strat, result |-> output, dispatched |-> output]

\* The winners announced to reflect_on_game.
Winners == {"Mafia", "Villagers"}

\* A log entry of the Reflection phase written by another player.
e3 == [phase |-> "Reflection", actor |-> "B", content |-> "Next time I lie less."]

\* Lines 175-178: the public log without the players' Reflection entries.
RECURSIVE reflection_logs(_)
reflection_logs(logs) ==
    IF logs = << >> THEN << >>
    ELSE (IF Head(logs).phase = "Reflection" /\ Head(logs).actor # "System"
          THEN << >>
          ELSE <<Head(logs)>>)
         \o reflection_logs(Tail(logs))

\* Lines 174-192: the turn prompt of the reflection.
reflection_turn_prompt(strat, mem, gs) ==
    <<"--- PUBLIC GAME LOG ---\n">> \o render_logs(reflection_logs(gs.public_logs))
    \o <<"\n--- SECRET MAFIA LOG (Revealed) ---\n">> \o render_logs(gs.mafia_logs)
    \o (IF strat # EmptyText
        THEN <<"\n--- YOUR FINAL STRATEGY (Context) ---\n">> \o strat \o <<"\n">>
        ELSE << >>)
    \o (IF mem # EmptyText
        THEN <<"\n--- YOUR OLD MEMORY ---\n">> \o mem \o <<"\n">>
        ELSE << >>)
    \o <<"\n### INSTRUCTIONS ###\n">>
    \o <<"Based on the above, write your NEW memory/strategy file (Max 200 words). This will REPLACE your old memory.">>

\* Lines 199-220: the system prompt of the reflection.
reflection_system_prompt(r, alive, winner) ==
    <<"You are ", PlayerName, ", a player in a Mafia game.\nThe game is over.\nWinner: ",
      winner, "\nYour Role: ", r, "\nYour Status: ",
      IF alive THEN "Alive" ELSE "Dead",
      "\n\nGOAL:\nAnalyze the game logs and your own performance. \nYou must COMBINE your 'Old Memory' (if any) with the NEW lessons from this game.\nWrite a single, updated summary (MAX 200 WORDS) that synthesizes your long-term strategy.\nThis text will be SAVED to your memory file and provided to you in the next game.\n\nKEY INSTRUCTION:\nFocus on GENERIC RULES and HIGH-LEVEL STRATEGIES (e.g., \"Always doubt the quiet ones,\" \"Defend partners aggressively\") rather than specific details from this game (e.g., \"Don't trust Rick,\" \"Vote for Qwen\").\nWe want actionable wisdom that applies to ANY game, not just a replay of this one.\n\nIMPORTANT:\n- Put your memory text in the 'strategy' field of the JSON output.\n- Set 'speech' to \"MEMORY_FILE_UPDATE\"\n- Set 'vote' to null\n- KEEP IT CONCISE. Absolute limit is 200 words. If you write more, it will be violently cut off.\n">>

\* A slip in line 233: the new text is returned untrimmed.
reflect_on_game_untrimmed(mem, cl, out) ==
    LET output == client_generate_turn(cl, out)
    IN  IF output.outcome = "returned"
        THEN [outcome |-> "returned", text |-> output.decision.strategy,
              dispatched |-> output]
        ELSE [outcome |-> "returned", text |-> mem, dispatched |-> output]

\* Player.reflect_on_game, lines 198-237: the text it returns; every
\* exception of the call is caught.
reflect_on_game(mem, cl, out) ==
    LET output == client_generate_turn(cl, out)
    IN  IF output.outcome = "returned"
        THEN [outcome |-> "returned", text |-> strip(output.decision.strategy),
              dispatched |-> output]
        ELSE [outcome |-> "returned", text |-> mem, dispatched |-> output]

(***************************************************************************)
(* The record of the last operation                                        *)
(***************************************************************************)
NoOp ==
    [name |-> "none", outcome |-> "none", decision |-> NoDecision,
     text |-> EmptyText, error |-> "none",
     dispatched |-> [outcome |-> "none", decision |-> NoDecision, error |-> "none"],
     backend |-> [first |-> BackendFailure, second |-> BackendFailure],
     provider |-> "none", turn_number |-> 0, prompt |-> EmptyText,
     parsed_text |-> EmptyText, spawned |-> << >>, requests |-> << >>,
     logged |-> << >>, events |-> << >>,
     pre_strategy |-> EmptyText, pre_memory |-> EmptyText, pre_history |-> << >>]

\* wrap before a response was drawn.
NoWrap == [body |-> EmptyText, fence |-> "none", lead |-> EmptyText, trail |-> EmptyText]

(***************************************************************************)
(* The agent's lifecycle: construction, set_partner, take_turn,            *)
(* reflect_on_game                                                         *)
(***************************************************************************)
\* The turn_number of a reflection (line 228).
ReflectionTurn == 999

\* The turn numbers callers pass.
TurnNumbers == {1, ReflectionTurn}

\* The game contexts passed to the agent during its lifecycle.
AgentGameStates ==
    { [phase |-> ph, turn |-> 2,
       players |-> Players([n \in {"A", "B", "C"} |-> n # "C"]),
       public_logs |-> <<e1, e3, e2>>, mafia_logs |-> <<m1>>,
       nominees |-> <<"B">>] : ph \in {"Day", "Night", "Reflection"} }

\* Player.__init__: the memory is what the memory file held, stripped (or
\* empty: no file, memory disabled); no partner; the strategy is empty.
Init ==
    /\ role \in Roles
    /\ partner_name = None
    /\ memory \in Memories
    /\ strategy = EmptyText
    /\ client \in Clients
    /\ USE_CLI = TRUE
    /\ debug = TRUE
    /\ game_state = NoGame
    /\ system_prompt = EmptyText
    /\ turn_prompt = EmptyText
    /\ history = << >>
    /\ calls = 0
    /\ op = NoOp
    /\ wrap = NoWrap
    /\ response_text = EmptyText
    /\ parsed = NotParsed

\* Player.set_partner
SetPartner(p) ==
    /\ partner_name' = p
    /\ op' = [NoOp EXCEPT !.name = "set_partner"]
    /\ UNCHANGED <<role, memory, strategy, client, USE_CLI, debug, game_state,
                   system_prompt, turn_prompt, history, calls, wrap,
                   response_text, parsed>>

\* Player.take_turn(game_state, turn_number), with what the client does.
TakeTurn(gs, tn, out) ==
    \E r \in {take_turn(strategy, client, out)} :
        /\ game_state' = gs
        /\ system_prompt' = _build_system_prompt(role, partner_name, memory, gs)
        /\ turn_prompt' = _build_turn_prompt(role, strategy, gs)
        /\ strategy' = r.strategy
        /\ op' = [NoOp EXCEPT !.name = "take_turn",
                              !.outcome = r.result.outcome,
                              !.decision = r.result.decision,
                              !.error = r.result.error,
                              !.dispatched = r.dispatched,
                              !.turn_number = tn,
                              !.pre_strategy = strategy,
                              !.pre_memory = memory]
        /\ UNCHANGED <<role, partner_name, memory, client, USE_CLI, debug,
                       history, calls, wrap, response_text, parsed>>

\* Player.reflect_on_game(game_state, winner), with what the client does;
\* alive is Player.state.is_alive, which the referee maintains.
ReflectOnGame(gs, winner, alive, out) ==
    \E r \in {reflect_on_game(memory, client, out)} :
        /\ game_state' = gs
        /\ system_prompt' = reflection_system_prompt(role, alive, winner)
        /\ turn_prompt' = reflection_turn_prompt(strategy, memory, gs)
        /\ op' = [NoOp EXCEPT !.name = "reflect_on_game",
                              !.outcome = r.outcome,
                              !.text = r.text,
                              !.dispatched = r.dispatched,
                              !.turn_number = ReflectionTurn,
                              !.pre_strategy = strategy,
                              !.pre_memory = memory]
        /\ UNCHANGED <<role, partner_name, memory, strategy, client, USE_CLI,
                       debug, history, calls, wrap, response_text, parsed>>

Next ==
    \/ \E p \in PartnerNames : SetPartner(p)
    \/ \E gs \in AgentGameStates, tn \in TurnNumbers, out \in DispatcherOutcomes :
          TakeTurn(gs, tn, out)
    \/ \E gs \in AgentGameStates, winner \in Winners, alive \in BOOLEAN,
          out \in DispatcherOutcomes :
          ReflectOnGame(gs, winner, alive, out)

Spec == Init /\ [][Next]_vars

(***************************************************************************)
(* The dispatcher called directly                                          *)
(***************************************************************************)
\* The number of generate_turn calls in a run of the model.
MaxCalls == 2

\* The prompts of the dispatcher runs: those of a Villager on day 2.
DispatchGameState ==
    [phase |-> "Day", turn |-> 2,
     players |-> Players([n \in {"A", "B", "C"} |-> n # "C"]),
     public_logs |-> <<e1>>, mafia_logs |-> << >>, nominees |-> << >>]

DispatchSystemPrompt == _build_system_prompt("Villager", None, EmptyText, DispatchGameState)
DispatchTurnPrompt == _build_turn_prompt("Villager", EmptyText, DispatchGameState)

\* UnifiedLLMClient(debug) constructed, the history file of the player not
\* yet written.  USE_CLI is the local constant of line 110, True on every
\* call: no run enters the hosted-API branch of lines 136-206.
InitDispatch ==
    /\ USE_CLI = TRUE
    /\ debug \in BOOLEAN
    /\ client = "UnifiedLLMClient"
    /\ history = << >>
    /\ calls = 0
    /\ op = NoOp
    /\ role = "Villager"
    /\ partner_name = None
    /\ memory = EmptyText
    /\ strategy = EmptyText
    /\ game_state = NoGame
    /\ system_prompt = EmptyText
    /\ turn_prompt = EmptyText
    /\ wrap = NoWrap
    /\ response_text = EmptyText
    /\ parsed = NotParsed

\* One call of UnifiedLLMClient.generate_turn, with the backend's behaviour.
GenerateTurnCall(provider, tn, b) ==
    /\ calls < MaxCalls
    /\ \E r \in {generate_turn(provider, DispatchSystemPrompt, DispatchTurnPrompt, tn,
                               USE_CLI, debug, b)} :
        /\ calls' = calls + 1
        /\ history' = history \o r.logged
        /\ op' = [NoOp EXCEPT !.name = "generate_turn",
                              !.outcome = r.outcome,
                              !.decision = r.decision,
                              !.error = r.error,
                              !.backend = b,
                              !.provider = provider,
                              !.turn_number = tn,
                              !.prompt = r.prompt,
                              !.parsed_text = r.parsed_text,
                              !.spawned = r.spawned,
                              !.requests = r.requests,
                              !.logged = r.logged,
                              !.events = r.events,
                              !.pre_history = history]
        /\ UNCHANGED <<role, partner_name, memory, strategy, client, USE_CLI,
                       debug, game_state, system_prompt, turn_prompt, wrap,
                       response_text, parsed>>

NextDispatch ==
    \E provider \in Providers, tn \in TurnNumbers, b \in Backends :
        GenerateTurnCall(provider, tn, b)

SpecDispatch == InitDispatch /\ [][NextDispatch]_vars

(***************************************************************************)
(* The prompt builders on every agent and context                          *)
(***************************************************************************)
InitPrompt ==
    /\ role \in Roles
    /\ partner_name \in {None} \cup PartnerNames
    /\ memory \in Memories
    /\ strategy \in {EmptyText, <<"hold">>}
    /\ game_state \in GameStates
    /\ system_prompt = EmptyText
    /\ turn_prompt = EmptyText
    /\ client = "stub"
    /\ USE_CLI = TRUE
    /\ debug = TRUE
    /\ history = << >>
    /\ calls = 0
    /\ op = NoOp
    /\ wrap = NoWrap
    /\ response_text = EmptyText
    /\ parsed = NotParsed

\* Lines 133-134 of take_turn: the two prompts of the context.
BuildPrompts ==
    /\ system_prompt = EmptyText
    /\ system_prompt' = _build_system_prompt(role, partner_name, memory, game_state)
    /\ turn_prompt' = _build_turn_prompt(role, strategy, game_state)
    /\ op' = [NoOp EXCEPT !.name = "build_prompts"]
    /\ UNCHANGED <<role, partner_name, memory, strategy, client, USE_CLI, debug,
                   game_state, history, calls, wrap, response_text, parsed>>

NextPrompt == BuildPrompts

SpecPrompt == InitPrompt /\ [][NextPrompt]_vars

(***************************************************************************)
(* Response parsing on every wrapping                                      *)
(***************************************************************************)
InitParse ==
    /\ wrap \in Wrappings
    /\ response_text = Render(wrap)
    /\ parsed = NotParsed
    /\ role = "Villager"
    /\ partner_name = None
    /\ memory = EmptyText
    /\ strategy = EmptyText
    /\ client = "UnifiedLLMClient"
    /\ USE_CLI = TRUE
    /\ debug = TRUE
    /\ game_state = NoGame
    /\ system_prompt = EmptyText
    /\ turn_prompt = EmptyText
    /\ history = << >>
    /\ calls = 0
    /\ op = NoOp

\* One call of UnifiedLLMClient._parse_and_validate on the response text.
ParseAndValidate ==
    /\ ~parsed.done
    /\ \E r \in {_parse_and_validate(response_text)} :
        /\ parsed' = [done |-> TRUE, ok |-> r.ok, decision |-> r.decision,
                      error |-> r.error]
        /\ UNCHANGED <<role, partner_name, memory, strategy, client, USE_CLI,
                       debug, game_state, system_prompt, turn_prompt, history,
                       calls, op, wrap, response_text>>

NextParse == ParseAndValidate

SpecParse == InitParse /\ [][NextParse]_vars

(***************************************************************************)
(* Properties                                                              *)
(***************************************************************************)
\* a is an initial part of b.
IsPrefix(a, b) == Len(a) <= Len(b) /\ SubSeq(b, 1, Len(a)) = a

\* t is s without its surrounding whitespace: s is whitespace, t, whitespace,
\* and t neither starts nor ends with whitespace.
IsTrimOf(t, s) ==
    /\ t = << >> \/ (~IsSpace(t[1]) /\ ~IsSpace(t[Len(t)]))
    /\ \E a \in 0..Len(s) :
          /\ a + Len(t) <= Len(s)
          /\ SubSeq(s, a + 1, a + Len(t)) = t
          /\ \A i \in 1..Len(s) : (i <= a \/ i > a + Len(t)) => IsSpace(s[i])

\* C1 (as amended): when the dispatcher call of take_turn gives a Decision,
\* take_turn returns that Decision, and the stored strategy afterwards is the
\* Decision's strategy when that is not empty, and the strategy stored before
\* the call when it is empty.
C1_StrategyOverwrittenUnlessEmpty ==
    (op.name = "take_turn" /\ op.dispatched.outcome = "returned") =>
        /\ op.outcome = "returned"
        /\ op.decision = op.dispatched.decision
        /\ strategy = IF op.dispatched.decision.strategy # EmptyText
                      THEN op.dispatched.decision.strategy
                      ELSE op.pre_strategy

\* C1, as stated: after a successful take_turn the stored strategy equals the
\* Decision's strategy, also when that is empty.
C1_Original ==
    (op.name = "take_turn" /\ op.dispatched.outcome = "returned") =>
        strategy = op.dispatched.decision.strategy

\* A take_turn that got a Decision with an empty strategy while a strategy
\* was stored.
C1_Witness ==
    /\ op.name = "take_turn"
    /\ op.dispatched.outcome = "returned"
    /\ op.dispatched.decision.strategy = EmptyText
    /\ op.pre_strategy # EmptyText
    /\ strategy = op.pre_strategy

\* C2: when the dispatcher call of take_turn fails, take_turn returns no
\* Decision, the dispatcher's error reaches the caller, and the stored
\* strategy and the memory are what they were before the call.
C2_FailureLeavesStateUnchanged ==
    (op.name = "take_turn" /\ op.dispatched.outcome = "raised") =>
        /\ op.outcome = "raised"
        /\ op.error = op.dispatched.error
        /\ strategy = op.pre_strategy
        /\ memory = op.pre_memory

\* A take_turn whose dispatcher call failed while a strategy was stored.
C2_Witness ==
    /\ op.name = "take_turn"
    /\ op.dispatched.outcome = "raised"
    /\ op.dispatched.error = "CalledProcessError"
    /\ op.pre_strategy # EmptyText
    /\ op.outcome = "raised"

\* C3: reflect_on_game always returns: the memory held before the call when
\* the dispatcher call failed, the Decision's strategy without its
\* surrounding whitespace when it succeeded.
C3_ReflectNeverRaises ==
    (op.name = "reflect_on_game") =>
        /\ op.outcome = "returned"
        /\ (op.dispatched.outcome = "raised" =>
                op.text = op.pre_memory /\ memory = op.pre_memory)
        /\ (op.dispatched.outcome = "returned" =>
                IsTrimOf(op.text, op.dispatched.decision.strategy))

\* A reflection whose dispatcher call succeeded with a strategy padded with
\* whitespace.
C3_Witness ==
    /\ op.name = "reflect_on_game"
    /\ op.dispatched.outcome = "returned"
    /\ op.dispatched.decision.strategy = <<" ", "bluff", "\n">>
    /\ op.text = <<"bluff">>

\* A reflection whose dispatcher call failed while a memory was held.
C3_FailureReached ==
    /\ op.name = "reflect_on_game"
    /\ op.dispatched.outcome = "raised"
    /\ op.pre_memory # EmptyText
    /\ op.text = op.pre_memory

\* C4 (as amended): with the client's debug flag on, every generate_turn call
\* appends to the player's history at least one record, the last of which
\* holds the prompt, the turn number and the response text (on success) or
\* the error text (on failure), and every append precedes the return or the
\* propagation of the error.
C4_DebugCallsAreLogged ==
    (op.name = "generate_turn" /\ debug) =>
        /\ IsPrefix(op.pre_history, history)
        /\ Len(history) > Len(op.pre_history)
        /\ history[Len(history)].prompt = op.prompt
        /\ history[Len(history)].turn = op.turn_number
        /\ (op.outcome = "returned" =>
                history[Len(history)].response = op.parsed_text)
        /\ (op.outcome = "raised" =>
                history[Len(history)].response = <<"ERROR: ", op.error>>)
        /\ \E i \in 1..(Len(op.events) - 1) : op.events[i] = "log"
        /\ op.events[Len(op.events)] \in {"return", "raise"}

\* C4, as stated: no generate_turn call completes with the history unchanged.
C4_Original ==
    (op.name = "generate_turn") => Len(history) > Len(op.pre_history)

\* A failing generate_turn call of a client with debug on.
C4_Witness ==
    /\ op.name = "generate_turn"
    /\ debug
    /\ op.outcome = "raised"
    /\ op.error = "CalledProcessError"
    /\ Len(history) = Len(op.pre_history) + 1

\* C5: in local-tool mode a generate_turn call for a provider without a
\* local tool fails with the configuration error, and spawns no process and
\* issues no request.
C5_UnmappedProviderSpawnsNothing ==
    (op.name = "generate_turn" /\ USE_CLI
        /\ op.provider \notin {"openai", "anthropic", "google", "groq"}) =>
        /\ op.outcome = "raised"
        /\ op.error = "ValueError: No CLI tool mapped for provider"
        /\ op.spawned = << >>
        /\ op.requests = << >>
        /\ \A i \in 1..Len(op.events) : op.events[i] # "backend"

\* A local-tool call for provider xai.
C5_Witness ==
    /\ op.name = "generate_turn"
    /\ USE_CLI
    /\ op.provider = "xai"
    /\ op.outcome = "raised"

\* C7 (as amended): for every JSON object text of the Decision shape, cleanup
\* and parsing give a Decision, the same for the text alone, in bare fences
\* and in fences tagged json, with or without surrounding whitespace.
C7_JsonFenceParsesAsInner ==
    (parsed.done /\ wrap.body \in ShapedBodies
        /\ wrap.fence \in {"none", "bare", "json"}) =>
        /\ parsed.ok
        /\ parsed.decision = _parse_and_validate(wrap.body).decision
        /\ _parse_and_validate(wrap.body).ok

\* C7, as stated: the same with fences carrying any language tag.
C7_Original ==
    (parsed.done /\ wrap.body \in ShapedBodies) =>
        /\ parsed.ok
        /\ parsed.decision = _parse_and_validate(wrap.body).decision

\* The spec's example: padded, fenced with the json tag, parsed to the
\* Decision of the inner object.
C7_Witness ==
    /\ parsed.done
    /\ wrap = [body |-> J_hold, fence |-> "json", lead |-> <<" ", " ">>,
               trail |-> <<" ", " ">>]
    /\ parsed.ok
    /\ parsed.decision = [strategy |-> <<"hold">>, speech |-> EmptyText, vote |-> None]

\* The partner-status phrases of a system prompt.
SaysPartnerAlive(sp) ==
    \E i \in 1..(Len(sp) - 2) : sp[i] = "Partner: " /\ sp[i + 2] = " (alive).\n"

SaysPartnerDead(sp) ==
    \E i \in 1..(Len(sp) - 2) : sp[i] = "Partner: " /\ sp[i + 2] = " (dead).\n"

SaysLastMafia(sp) == Contains(sp, "You're the last Mafia.\n")

\* Whether the roster of gs holds an alive entry named n.
AliveInRoster(n, gs) ==
    \E i \in DOMAIN gs.players : gs.players[i].name = n /\ gs.players[i].is_alive

\* C8: the system prompt of a Mafia agent says "partner alive" exactly when
\* a partner is set and alive in the roster, "partner dead" exactly when a
\* partner is set and not alive in the roster, "last Mafia" exactly when no
\* partner is set (so exactly one of the three); a Villager's says none.
C8_OnePartnerStatus ==
    (op.name = "build_prompts") =>
        /\ (role = "Mafia" =>
              /\ SaysPartnerAlive(system_prompt) <=>
                    (partner_name # None /\ AliveInRoster(partner_name, game_state))
              /\ SaysPartnerDead(system_prompt) <=>
                    (partner_name # None /\ ~AliveInRoster(partner_name, game_state))
              /\ SaysLastMafia(system_prompt) <=> (partner_name = None))
        /\ (role # "Mafia" =>
              /\ ~SaysPartnerAlive(system_prompt)
              /\ ~SaysPartnerDead(system_prompt)
              /\ ~SaysLastMafia(system_prompt))

\* The prompt of a Mafia agent whose partner is dead in the roster.
C8_Witness ==
    /\ op.name = "build_prompts"
    /\ role = "Mafia"
    /\ partner_name = "B"
    /\ ~AliveInRoster("B", game_state)
    /\ SaysPartnerDead(system_prompt)
    /\ ~SaysPartnerAlive(system_prompt)

\* The candidates a Voting turn prompt names: the tokens between
\* "VOTE. Candidates: " and the ". " closing the list, separators left out.
CandidatesNamed(tp) ==
    LET start == First({i \in 1..Len(tp) : tp[i] = "VOTE. Candidates: "})
        stop == First({i \in (start + 1)..Len(tp) : tp[i] = ". "})
    IN  {tp[i] : i \in (start + 1)..(stop - 1)} \ {", "}

\* The description of the speech field in a system prompt.
SpeechDescribed(sp) ==
    sp[First({i \in 1..Len(sp) : sp[i] = "\"speech\": \""}) + 1]

\* The turn prompt of a Voting context instructs a silent ballot.
InstructsSilentBallot(tp) ==
    Contains(tp, "Silent vote: speech=\"\", vote=candidate or null. Tie = all tied eliminated.\n")

\* C10: in the Voting phase the prompts instruct a silent ballot, name as
\* vote targets exactly the current nominees, and the system prompt does not
\* describe the speech field as a statement to be made.
C10_Original ==
    (op.name = "build_prompts" /\ game_state.phase = "Voting") =>
        /\ InstructsSilentBallot(turn_prompt)
        /\ Contains(turn_prompt, "VOTE. Candidates: ")
        /\ CandidatesNamed(turn_prompt) =
              {game_state.nominees[i] : i \in DOMAIN game_state.nominees}
        /\ SpeechDescribed(system_prompt) \notin
              {"<100w public statement>", "<100w whisper to partner>",
               "<100w internal monologue>"}

\* C9: after a reflect_on_game whose dispatcher call succeeded, the agent's
\* memory is the trimmed text it returned (and a system prompt built next
\* carries it).
C9_Original ==
    (op.name = "reflect_on_game" /\ op.dispatched.outcome = "returned") =>
        /\ memory = op.text
        /\ (op.text # EmptyText =>
              \E i \in 1..Len(_build_system_prompt(role, partner_name, memory, game_state)) :
                  SubSeq(_build_system_prompt(role, partner_name, memory, game_state),
                         i, i + Len(op.text) - 1) = op.text)

\* The line of log entry e stands in prompt tp from position pos on.
EntryAt(tp, pos, e) ==
    /\ pos + 6 <= Len(tp)
    /\ tp[pos] = "[" /\ tp[pos + 1] = e.phase /\ tp[pos + 2] = "] "
    /\ tp[pos + 3] = e.actor /\ tp[pos + 4] = ": "
    /\ tp[pos + 5] = e.content /\ tp[pos + 6] = "\n"

\* The contents of the entries of the Mafia-only logs of the model.
MafiaLogContents == {m1.content, m2.content}

\* C11: the prompts of a Villager's take_turn are the same for any two
\* contexts that differ only in the Mafia-only log, and hold no entry of it;
\* the turn prompt of a Mafia agent renders every entry of the Mafia-only
\* log, in insertion order, after the public log.
C11_MafiaLogOnlyForMafia ==
    (op.name = "build_prompts") =>
        /\ (role = "Villager" =>
              /\ \A ml \in MafiaLogs :
                    /\ system_prompt = _build_system_prompt(role, partner_name, memory,
                                          [game_state EXCEPT !.mafia_logs = ml])
                    /\ turn_prompt = _build_turn_prompt(role, strategy,
                                          [game_state EXCEPT !.mafia_logs = ml])
              /\ \A c \in MafiaLogContents :
                    ~Contains(system_prompt, c) /\ ~Contains(turn_prompt, c)
              /\ ~Contains(turn_prompt, "\n--- MAFIA LOG ---\n"))
        /\ (role = "Mafia" =>
              /\ Contains(turn_prompt, "--- LOG ---\n")
              /\ Contains(turn_prompt, "\n--- MAFIA LOG ---\n")
              /\ LET public == First({i \in 1..Len(turn_prompt) :
                                        turn_prompt[i] = "--- LOG ---\n"})
                     secret == First({i \in 1..Len(turn_prompt) :
                                        turn_prompt[i] = "\n--- MAFIA LOG ---\n"})
                 IN  /\ \A i \in DOMAIN game_state.public_logs :
                           EntryAt(turn_prompt, public + 7 * (i - 1) + 1,
                                   game_state.public_logs[i])
                     /\ secret = public + 7 * Len(game_state.public_logs) + 1
                     /\ \A i \in DOMAIN game_state.mafia_logs :
                           EntryAt(turn_prompt, secret + 7 * (i - 1) + 1,
                                   game_state.mafia_logs[i])
                     /\ ~EntryAt(turn_prompt,
                                 secret + 7 * Len(game_state.mafia_logs) + 1, m1)
                     /\ ~EntryAt(turn_prompt,
                                 secret + 7 * Len(game_state.mafia_logs) + 1, m2))

\* The prompts of a Villager built from a context whose Mafia-only log holds
\* two entries.
C11_Witness ==
    /\ op.name = "build_prompts"
    /\ role = "Villager"
    /\ game_state.mafia_logs = <<m1, m2>>
    /\ game_state.public_logs = <<e1, e2>>
    /\ ~Contains(turn_prompt, "\n--- MAFIA LOG ---\n")
    /\ ~Contains(turn_prompt, m1.content)

\* The turn prompt of a Mafia agent rendering m2 before m1, as inserted.
C11_MafiaOrderReached ==
    /\ op.name = "build_prompts"
    /\ role = "Mafia"
    /\ game_state.mafia_logs = <<m2, m1>>
    /\ \E i \in 1..Len(turn_prompt), j \in 1..Len(turn_prompt) :
          i < j /\ turn_prompt[i] = m2.content /\ turn_prompt[j] = m1.content

\* Whether a prompt tells the agent to whisper to a partner.
TellsToWhisper(p) ==
    \/ Contains(p, "<100w whisper to partner>")
    \/ Contains(p, "NIGHT: Whisper to partner. vote=target to kill.\n")

\* C12: in the Night phase the prompts of a Mafia agent describe speech as
\* a whisper to the partner exactly when the partner is alive in the roster
\* and as an internal monologue otherwise, and neither prompt tells a Mafia
\* agent without a living partner to whisper to a partner.
C12_Original ==
    (op.name = "build_prompts" /\ game_state.phase = "Night" /\ role = "Mafia") =>
        LET living_partner ==
                partner_name # None /\ AliveInRoster(partner_name, game_state)
        IN  /\ (SpeechDescribed(system_prompt) = "<100w whisper to partner>")
                  <=> living_partner
            /\ (SpeechDescribed(system_prompt) = "<100w internal monologue>")
                  <=> ~living_partner
            /\ (~living_partner =>
                  ~TellsToWhisper(system_prompt) /\ ~TellsToWhisper(turn_prompt))

\* C13: every generate_turn call of a logging client appends exactly one
\* record to the player's history, whatever its outcome, so that after n
\* calls the history holds n records in call order; a call whose backend
\* reply fails parsing or validation leaves the single error record.
C13_Original ==
    debug =>
        /\ Len(history) = calls
        /\ (op.name = "generate_turn" =>
              /\ IsPrefix(op.pre_history, history)
              /\ Len(history) = Len(op.pre_history) + 1
              /\ history[Len(history)].turn = op.turn_number)

====
